---- MODULE Spec2Model ----
(***************************************************************************)
(* Norwegian form helpers (localflavor/no/forms.py): the social security   *)
(* number field, the bank account number field and the organisation        *)
(* number field.  A string is a sequence of one-character strings.         *)
(***************************************************************************)
EXTENDS Integers, Sequences, FiniteSets, TLC

VARIABLES
    lazyMap,    \* interpreter: TRUE when map() returns a one-shot iterator (Python 3), FALSE when it returns a list (Python 2)
    required,   \* Field.required of the field under test
    pc,         \* position of the single-call specifications: "idle" or "done"
    field,      \* which field the last call was made on
    raw,        \* argument of the last call
    value,      \* value returned by the last call (the to_python value when it was rejected)
    outcome,    \* "none", "ok", "empty" or "rejected"
    error,      \* key of the error message raised, "" when none
    failKind,   \* raise site of the failure, "" when none
    parts,      \* the pieces an organisation number input was typed from
    birthday,   \* NOSocialSecurityNumber.birthday attribute
    gender,     \* NOSocialSecurityNumber.gender attribute
    tpc,        \* per thread: position inside clean
    tin,        \* per thread: the argument of its clean call
    tres,       \* per thread: how its call ended
    tseen       \* per thread: the attributes of the field at the moment its call returned

vars == <<lazyMap, required, pc, field, raw, value, outcome, error, failKind, parts,
          birthday, gender, tpc, tin, tres, tseen>>

----------------------------------------------------------------------------
(* Characters and integer conversion *)

DigitChars == {"0", "1", "2", "3", "4", "5", "6", "7", "8", "9"}

\* str(d) of one decimal digit
CharOf == <<"0", "1", "2", "3", "4", "5", "6", "7", "8", "9">>

\* int(c) of one decimal digit character
DigitOf == [c \in DigitChars |-> CHOOSE d \in 0..9 : CharOf[d + 1] = c]
DigitVal(c) == DigitOf[c]

\* int(s) of a non-empty all-digit string
RECURSIVE ToInt(_)
ToInt(s) ==
    IF Len(s) = 0 THEN 0
    ELSE 10 * ToInt(SubSeq(s, 1, Len(s) - 1)) + DigitVal(s[Len(s)])

IsAllDigits(s) == \A i \in 1..Len(s) : s[i] \in DigitChars

\* characters str.isdigit() accepts and int() refuses: "sup2" stands for the
\* one character SUPERSCRIPT TWO
UnicodeDigits == {"sup2"}

\* the line feed, which $ of a regular expression lets follow the match
Newline == "\n"

\* $ at position at of s: the end, or a line feed that ends s
AtEnd(s, at) == Len(s) = at \/ (Len(s) = at + 1 /\ s[at + 1] = Newline)

\* s[lo:hi] with Python's clamping of the bounds (0-based, hi exclusive)
Slice(s, lo, hi) ==
    LET h == IF hi > Len(s) THEN Len(s) ELSE hi
    IN  IF lo >= h THEN <<>> ELSE SubSeq(s, lo + 1, h)

\* zero-padded decimal rendering, used to type the inputs
Str1(d) == CharOf[(d % 10) + 1]
Pad2(n) == <<Str1(n \div 10), Str1(n)>>
Pad3(n) == <<Str1(n \div 100), Str1(n \div 10), Str1(n)>>

EmptyString == <<>>

----------------------------------------------------------------------------
(* datetime.date *)

IsLeap(y) == (y % 4 = 0 /\ y % 100 # 0) \/ y % 400 = 0

DaysInMonth(y, m) ==
    IF m = 2 THEN (IF IsLeap(y) THEN 29 ELSE 28)
    ELSE IF m \in {4, 6, 9, 11} THEN 30 ELSE 31

\* datetime.date(y, m, d) raises ValueError unless this holds
DateOK(y, m, d) ==
    /\ 1 <= y /\ y <= 9999
    /\ 1 <= m /\ m <= 12
    /\ 1 <= d /\ d <= DaysInMonth(y, m)

\* a date is <<"date", year, month, day>>; None and a missing attribute follow
MkDate(y, m, d) == <<"date", y, m, d>>
NoneDate == <<"None", 0, 0, 0>>
Unset == <<"unset", 0, 0, 0>>
Kind(b) == b[1]
Year(b) == b[2]

----------------------------------------------------------------------------
(* NOSocialSecurityNumber *)

weight_1 == <<3, 7, 6, 1, 8, 9, 4, 5, 2, 1, 0>>
weight_2 == <<5, 4, 3, 2, 7, 6, 5, 4, 3, 2, 1>>

Min(a, b) == IF a < b THEN a ELSE b

\* sum([(a * b) for (a, b) in zip(aval, bval)])
RECURSIVE SumProd(_, _, _)
SumProd(aval, bval, n) ==
    IF n = 0 THEN 0 ELSE SumProd(aval, bval, n - 1) + aval[n] * bval[n]

multiply_reduce(aval, bval) == SumProd(aval, bval, Min(Len(aval), Len(bval)))

\* map(int, list(value)): the digits as integers
MapInt(v) == [i \in 1..Len(v) |-> DigitVal(v[i])]

\* what is left of `digits` after one zip over it: a list is untouched, a
\* one-shot iterator has been drained
AfterZip(it, lazy) == IF lazy THEN <<>> ELSE it

\* re.match(r'^\d{11}$', value)
MatchSSN(v) == Len(v) >= 11 /\ IsAllDigits(SubSeq(v, 1, 11)) /\ AtEnd(v, 11)

get_gender(v) == IF DigitVal(v[9]) % 2 = 0 THEN "F" ELSE "M"

Rule1Applies(inum, year2) == 0 <= inum /\ inum < 500
Rule2Applies(inum, year2) == 500 <= inum /\ inum < 750 /\ year2 > 54
Rule3Applies(inum, year2) == 500 <= inum /\ inum < 1000 /\ year2 < 40
Rule4Mutant(inum, year2) == 500 <= inum /\ inum < 1000 /\ year2 > 39
Rule4Applies(inum, year2) == 900 <= inum /\ inum < 1000 /\ year2 > 39

\* one `if cond: birthday = datetime.date(y, m, d)` inside the try block
DateRule(b, cond, y, m, d) ==
    IF b.raised \/ ~cond THEN b
    ELSE IF DateOK(y, m, d) THEN [raised |-> FALSE, birthday |-> MkDate(y, m, d)]
    ELSE [raised |-> TRUE, birthday |-> b.birthday]

\* _get_birthday: the four tests run in sequence, each overwriting birthday;
\* a ValueError of datetime.date becomes the ValidationError ("raised")
BirthdayOf(day, month, year2, inum) ==
    DateRule(
      DateRule(
        DateRule(
          DateRule([raised |-> FALSE, birthday |-> NoneDate],
                   Rule1Applies(inum, year2), 1900 + year2, month, day),
          Rule2Applies(inum, year2), 1800 + year2, month, day),
        Rule3Applies(inum, year2), 2000 + year2, month, day),
      Rule4Applies(inum, year2), 1900 + year2, month, day)

get_birthday(v) ==
    BirthdayOf(ToInt(Slice(v, 0, 2)), ToInt(Slice(v, 2, 4)),
               ToInt(Slice(v, 4, 6)), ToInt(Slice(v, 6, 9)))

\* typing an 11-digit number from its fields
MkSSN(day, month, year2, inum, c1, c2) ==
    Pad2(day) \o Pad2(month) \o Pad2(year2) \o Pad3(inum) \o <<Str1(c1), Str1(c2)>>

\* error_messages[...] at the raise sites of clean and _get_birthday
SSNStructError == "invalid"
SSNChecksumErrorMutant == "invalid_checksum"
SSNChecksumError == "invalid"
SSNDateError == "invalid"

\* the two checksum tests of clean; `digits` is built once and zipped twice
ChecksOn(digits, lazy) ==
    /\ multiply_reduce(digits, weight_1) % 11 = 0
    /\ multiply_reduce(AfterZip(digits, lazy), weight_2) % 11 = 0

ChecksPass(v, lazy) == ChecksOn(MapInt(v), lazy)

Result(o, e, k, v, b, g) ==
    [outcome |-> o, error |-> e, failKind |-> k, value |-> v, birthday |-> b, gender |-> g]

\* lines 57-72 of clean, bd being what _get_birthday gave: the attributes
\* are assigned before the checksums are tested; int() of a character that
\* is no digit is an uncaught ValueError
SSNDerive(v, lazy, b, g, bd) ==
    IF bd.raised
    THEN Result("rejected", SSNDateError, "InvalidCalendarDate", v, b, g)
    ELSE IF ~IsAllDigits(v)
    THEN Result("crash", "ValueError", "", v, bd.birthday, get_gender(v))
    ELSE IF ~ChecksPass(v, lazy)
    THEN Result("rejected", SSNChecksumError, "ChecksumMismatch", v,
                bd.birthday, get_gender(v))
    ELSE Result("ok", "", "", v, bd.birthday, get_gender(v))

\* NOSocialSecurityNumber.clean(v) on a field whose attributes are b and g
SSNClean(v, lazy, req, b, g) ==
    IF v = EmptyString
    THEN IF req THEN Result("rejected", "required", "Required", v, b, g)
         ELSE Result("empty", "", "", EmptyString, b, g)
    ELSE IF ~MatchSSN(v)
    THEN Result("rejected", SSNStructError, "StructuralMismatch", v, b, g)
    ELSE SSNDerive(v, lazy, b, g, get_birthday(v))

----------------------------------------------------------------------------
(* Inputs of the social security number field *)

\* payloads typed with every pair of check digits
FullPayloads == { <<1, 12, 99, 123>>, <<15, 6, 45, 600>>, <<24, 12, 60, 931>> }
\* payloads typed with every first check digit and second check digit 0
HalfPayloads == { <<15, 6, 60, 800>>, <<31, 2, 80, 246>>, <<29, 2, 0, 552>>,
                  <<29, 2, 0, 123>>, <<1, 13, 70, 311>> }
BadShapes == { EmptyString,
               <<"1", "2", "3">>,
               <<"0", "1", "1", "2", "9", "9", "1", "2", "3", "4">>,
               <<"0", "1", "1", "2", "9", "9", "1", "2", "3", "4", "x">>,
               <<"0", "1", "1", "2", "9", "9", "1", "2", "3", "4", "5", "6">>,
               <<"2", "4", "1", "2", "6", "0", "9", "3", "1", "0", "8", Newline>> }

SSNInputs ==
    { MkSSN(p[1], p[2], p[3], p[4], c1, c2) : p \in FullPayloads, c1 \in 0..9, c2 \in 0..9 }
    \cup { MkSSN(p[1], p[2], p[3], p[4], c1, 0) : p \in HalfPayloads, c1 \in 0..9 }
    \cup BadShapes

----------------------------------------------------------------------------
(* Sequential calls of clean on one NOSocialSecurityNumber field *)

NoParts == [prefix |-> <<>>, g1 |-> <<>>, sep1 |-> <<>>, g2 |-> <<>>, sep2 |-> <<>>,
            g3 |-> <<>>, suffix |-> <<>>]

Threads == {1, 2}

NoThreads ==
    /\ tpc = [t \in Threads |-> "idle"]
    /\ tin = [t \in Threads |-> EmptyString]
    /\ tres = [t \in Threads |-> "none"]
    /\ tseen = [t \in Threads |-> [birthday |-> Unset, gender |-> "unset"]]

InitSSN ==
    /\ lazyMap \in BOOLEAN
    /\ required \in BOOLEAN
    /\ pc = "idle"
    /\ field = "ssn"
    /\ raw = EmptyString
    /\ value = EmptyString
    /\ outcome = "none"
    /\ error = ""
    /\ failKind = ""
    /\ parts = NoParts
    /\ birthday = Unset
    /\ gender = "unset"
    /\ NoThreads

CleanSSN ==
    \E v \in SSNInputs :
        \E r \in {SSNClean(v, lazyMap, required, birthday, gender)} :
            /\ raw' = v
            /\ value' = r.value
            /\ outcome' = r.outcome
            /\ error' = r.error
            /\ failKind' = r.failKind
            /\ birthday' = r.birthday
            /\ gender' = r.gender
            /\ pc' = "done"
            /\ UNCHANGED <<lazyMap, required, field, parts, tpc, tin, tres, tseen>>

NextSSN == CleanSSN

SpecSSN == InitSSN /\ [][NextSSN]_vars

ThreeKinds == {"StructuralMismatch", "ChecksumMismatch", "InvalidCalendarDate"}

\* C1: an accepted identity number satisfies both weighted checksums, each
\* taken over all 11 digits, and every change of its last digit is rejected.
C1_BothChecksumsRequired ==
    (field = "ssn" /\ outcome = "ok") =>
        /\ multiply_reduce(MapInt(value), weight_1) % 11 = 0
        /\ multiply_reduce(MapInt(value), weight_2) % 11 = 0
        /\ \A c \in DigitChars \ {value[11]} :
               SSNClean([value EXCEPT ![11] = c], lazyMap, required,
                        birthday, gender).outcome = "rejected"

\* C2: every accepted identity number has a derived identity: the birthday
\* attribute is a calendar date and the gender attribute one of two categories.
C2_AcceptedHasIdentity ==
    (field = "ssn" /\ outcome = "ok") =>
        (Kind(birthday) = "date" /\ gender \in {"F", "M"})

\* C3: after a failed call the field exposes no derived identity, neither of
\* the rejected input nor of an earlier call.
C3_NoIdentityAfterFailure ==
    (field = "ssn" /\ outcome = "rejected") =>
        (Kind(birthday) # "date" /\ gender \notin {"F", "M"})

----------------------------------------------------------------------------
(* Century derivation: _get_birthday on every individual number and year *)

CenturyDays == { <<1, 1>>, <<29, 2>> }

\* every individual number and every two-digit year, on each of the days
CenturyInput(dm, y, i) == MkSSN(dm[1], dm[2], y, i, 0, 0)

InitCentury ==
    /\ lazyMap = TRUE
    /\ required = TRUE
    /\ pc = "idle"
    /\ field = "ssn"
    /\ \E dm \in CenturyDays, y \in 0..99, i \in 0..999 : raw = CenturyInput(dm, y, i)
    /\ value = EmptyString
    /\ outcome = "none"
    /\ error = ""
    /\ failKind = ""
    /\ parts = NoParts
    /\ birthday = Unset
    /\ gender = "unset"
    /\ NoThreads

\* self.birthday = self._get_birthday(value)
DeriveBirthday ==
    /\ pc = "idle"
    /\ \E b \in {get_birthday(raw)} :
           /\ birthday' = IF b.raised THEN birthday ELSE b.birthday
           /\ outcome' = IF b.raised THEN "rejected" ELSE outcome
           /\ error' = IF b.raised THEN SSNDateError ELSE error
           /\ failKind' = IF b.raised THEN "InvalidCalendarDate" ELSE failKind
    /\ pc' = "done"
    /\ UNCHANGED <<lazyMap, required, field, raw, value, parts, gender,
                   tpc, tin, tres, tseen>>

NextCentury == DeriveBirthday

SpecCentury == InitCentury /\ [][NextCentury]_vars

\* the ranked rule set, first match wins; 0 when no rule matches
FirstMatchCentury(inum, year2) ==
    IF inum >= 0 /\ inum < 500 THEN 1900
    ELSE IF inum >= 500 /\ inum < 750 /\ year2 > 54 THEN 1800
    ELSE IF inum >= 500 /\ inum < 1000 /\ year2 < 40 THEN 2000
    ELSE IF inum >= 900 /\ inum < 1000 /\ year2 > 39 THEN 1900
    ELSE 0

RawYear2 == ToInt(Slice(raw, 4, 6))
RawInum == ToInt(Slice(raw, 6, 9))

\* C10: for every individual number and two-digit year the century the code
\* derives is the one the first matching rule of the ranked rule set gives
\* (no date when no rule matches), and the four boundary cases select the
\* documented rules.
C10_CenturyIsFirstMatch ==
    (field = "ssn" /\ pc = "done" /\ outcome \in {"none", "rejected"}) =>
        /\ LET c == FirstMatchCentury(RawInum, RawYear2)
               m == ToInt(Slice(raw, 2, 4))
               d == ToInt(Slice(raw, 0, 2))
           IN  IF outcome = "rejected" THEN c # 0 /\ ~DateOK(c + RawYear2, m, d)
               ELSE IF c = 0 THEN birthday = NoneDate
               ELSE birthday = MkDate(c + RawYear2, m, d)
        /\ (outcome = "none" /\ RawInum = 499 /\ RawYear2 = 23) => Year(birthday) = 1923
        /\ (outcome = "none" /\ RawInum = 500 /\ RawYear2 = 55) => Year(birthday) = 1855
        /\ (outcome = "none" /\ RawInum = 999 /\ RawYear2 = 39) => Year(birthday) = 2039
        /\ (outcome = "none" /\ RawInum = 999 /\ RawYear2 = 40) => Year(birthday) = 1940

C10_Witness ==
    /\ pc = "done" /\ outcome = "none"
    /\ RawInum = 999 /\ RawYear2 = 40
    /\ birthday = MkDate(1940, 1, 1)

----------------------------------------------------------------------------
(* Two threads calling clean on the same NOSocialSecurityNumber field *)

ConcInputs == { MkSSN(15, 6, 45, 600, 9, 0), MkSSN(24, 12, 60, 931, 0, 8),
                MkSSN(29, 2, 0, 552, 1, 7), MkSSN(1, 12, 99, 123, 4, 5),
                MkSSN(31, 2, 80, 246, 0, 0), <<"1", "2", "3">> }

InitConc ==
    /\ lazyMap \in BOOLEAN
    /\ required = TRUE
    /\ pc = "idle"
    /\ field = "ssn"
    /\ raw = EmptyString
    /\ value = EmptyString
    /\ outcome = "none"
    /\ error = ""
    /\ failKind = ""
    /\ parts = NoParts
    /\ birthday = Unset
    /\ gender = "unset"
    /\ NoThreads

Others == <<lazyMap, required, pc, field, raw, value, outcome, error, failKind, parts>>

\* lines 50-55: the call is entered and the shape of the argument tested
Enter(t) ==
    /\ tpc[t] = "idle"
    /\ \E v \in ConcInputs :
           /\ \A u \in Threads \ {t} : tin[u] # v
           /\ tin' = [tin EXCEPT ![t] = v]
           /\ IF MatchSSN(v)
              THEN /\ tpc' = [tpc EXCEPT ![t] = "birthday"]
                   /\ UNCHANGED tres
              ELSE /\ tpc' = [tpc EXCEPT ![t] = "done"]
                   /\ tres' = [tres EXCEPT ![t] = "rejected"]
    /\ UNCHANGED <<birthday, gender, tseen>>
    /\ UNCHANGED Others

\* line 57: self.birthday = self._get_birthday(value)
StoreBirthday(t) ==
    /\ tpc[t] = "birthday"
    /\ \E b \in {get_birthday(tin[t])} :
           IF b.raised
           THEN /\ tpc' = [tpc EXCEPT ![t] = "done"]
                /\ tres' = [tres EXCEPT ![t] = "rejected"]
                /\ UNCHANGED birthday
           ELSE /\ tpc' = [tpc EXCEPT ![t] = "gender"]
                /\ birthday' = b.birthday
                /\ UNCHANGED tres
    /\ UNCHANGED <<gender, tin, tseen>>
    /\ UNCHANGED Others

\* line 58: self.gender = self._get_gender(value)
StoreGender(t) ==
    /\ tpc[t] = "gender"
    /\ gender' = get_gender(tin[t])
    /\ tpc' = [tpc EXCEPT ![t] = "checks"]
    /\ UNCHANGED <<birthday, tin, tres, tseen>>
    /\ UNCHANGED Others

\* lines 60-72: the checksums, then the return; tseen is what the field holds
\* at the moment the call ends
Finish(t) ==
    /\ tpc[t] = "checks"
    /\ tpc' = [tpc EXCEPT ![t] = "done"]
    /\ tres' = [tres EXCEPT ![t] = IF ChecksPass(tin[t], lazyMap) THEN "ok" ELSE "rejected"]
    /\ tseen' = [tseen EXCEPT ![t] = [birthday |-> birthday, gender |-> gender]]
    /\ UNCHANGED <<birthday, gender, tin>>
    /\ UNCHANGED Others

NextConc == \E t \in Threads : Enter(t) \/ StoreBirthday(t) \/ StoreGender(t) \/ Finish(t)

SpecConc == InitConc /\ [][NextConc]_vars

\* C4: whatever the interleaving of two calls with different inputs, the
\* birth date and sex the field holds when a call completes successfully are
\* both derived from that call's own input.
C4_OwnIdentityAtCompletion ==
    \A t \in Threads :
        (tpc[t] = "done" /\ tres[t] = "ok") =>
            /\ tseen[t].birthday = get_birthday(tin[t]).birthday
            /\ tseen[t].gender = get_gender(tin[t])

----------------------------------------------------------------------------
(* NOBankAccountNumber *)

NFree == 1
MaxRawLen == 3

Remove(s, ch) == SelectSeq(s, LAMBDA c : c # ch)

\* str.strip() of CharField.to_python, for the whitespace of the inputs
RECURSIVE LStrip(_)
LStrip(s) == IF Len(s) > 0 /\ s[1] = " " THEN LStrip(Tail(s)) ELSE s
RECURSIVE RStrip(_)
RStrip(s) == IF Len(s) > 0 /\ s[Len(s)] = " " THEN RStrip(SubSeq(s, 1, Len(s) - 1)) ELSE s
Strip(s) == RStrip(LStrip(s))

\* str.isdigit()
isdigit(s) == Len(s) > 0 /\ \A i \in 1..Len(s) : s[i] \in DigitChars \cup UnicodeDigits

\* NOBankAccountNumber.to_python
StripSeparators(u) ==
    IF u = EmptyString THEN EmptyString ELSE Remove(Remove(u, "."), " ")

BankToPython(v) == StripSeparators(Strip(v))

bank_weights_short == <<5, 4, 3, 2, 7, 6, 5, 4, 3>>

bank_weights == <<5, 4, 3, 2, 7, 6, 5, 4, 3, 2>>

\* sum(w * int(x) for w, x in zip(weights, digits))
WeightedSum(ws, xs) == SumProd(ws, MapInt(xs), Min(Len(ws), Len(xs)))

BankChecksum(remainder) == IF remainder = 0 THEN 0 ELSE 11 - remainder

\* NOBankAccountNumber.validate: "" when nothing is raised, "return" when the
\* value is empty and that is accepted, else the key of the error raised
\* ("ValueError" when int() refuses a character, which nothing catches)
BankValidate(v, req) ==
    IF v = EmptyString THEN (IF req THEN "required" ELSE "return")
    ELSE IF ~isdigit(v) THEN "invalid"
    ELSE IF Len(v) # 11 THEN "invalid_length"
    ELSE IF ~IsAllDigits(v) THEN "ValueError"
    ELSE LET check_digit == DigitVal(v[Len(v)])
             bank_number == SubSeq(v, 1, Len(v) - 1)
             remainder == WeightedSum(bank_weights, bank_number) % 11
         IN  IF BankChecksum(remainder) # check_digit THEN "invalid_checksum" ELSE ""

\* Field.clean of the bank account field: to_python, then validate
BankResult(u, e) ==
    [outcome |-> IF e = "" THEN "ok" ELSE IF e = "return" THEN "empty"
                 ELSE IF e = "ValueError" THEN "crash" ELSE "rejected",
     error |-> IF e = "return" THEN "" ELSE e,
     value |-> u]

BankCleaned(u, req) == BankResult(u, BankValidate(u, req))

BankClean(v, req) == BankCleaned(BankToPython(v), req)

\* NOBankAccountNumber.prepare_value
FormatMutant(u) ==
    IF u = EmptyString THEN EmptyString
    ELSE Slice(u, 0, 4) \o <<".">> \o Slice(u, 4, 6) \o <<".">> \o Slice(u, 6, 10)

\* '{}.{}.{}'.format(value[0:4], value[4:6], value[6:11]), or the empty value
Format(u) ==
    IF u = EmptyString THEN EmptyString
    ELSE Slice(u, 0, 4) \o <<".">> \o Slice(u, 4, 6) \o <<".">> \o Slice(u, 6, 11)

prepare_value(v) == Format(BankToPython(v))

----------------------------------------------------------------------------
(* NOOrganisationNumberField *)

max_length == 18
min_length == 9

Upper(c) ==
    CASE c = "n" -> "N" [] c = "o" -> "O" [] c = "m" -> "M"
      [] c = "v" -> "V" [] c = "a" -> "A" [] OTHER -> c

UpperSeq(s) == [i \in 1..Len(s) |-> Upper(s[i])]

\* s[from+1 .. from+Len(lit)] equals lit when letter case is ignored
LitAt(s, from, lit) ==
    /\ Len(s) >= from + Len(lit)
    /\ \A i \in 1..Len(lit) : Upper(s[from + i]) = lit[i]

DigitsAt(s, from) ==
    /\ Len(s) >= from + 3
    /\ \A i \in 1..3 : s[from + i] \in DigitChars

SpaceAt(s, from) == Len(s) >= from + 1 /\ s[from + 1] = " "

\* regex.match(value) for ^(NO )?(\d{3}) ?(\d{3}) ?(\d{3})( MVA)?$ with
\* re.IGNORECASE: ok and the five groups.  p, b and c are the positions at
\* which the prefix, the second and the third group of digits end.
NoMatch ==
    [ok |-> FALSE, prefix |-> <<>>, g1 |-> <<>>, g2 |-> <<>>, g3 |-> <<>>, suffix |-> <<>>]

OrgGroups(s, p, b, c) ==
    IF /\ DigitsAt(s, p) /\ DigitsAt(s, b - 3) /\ DigitsAt(s, c - 3)
       /\ \/ AtEnd(s, c)
          \/ (LitAt(s, c, <<" ", "M", "V", "A">>) /\ AtEnd(s, c + 4))
    THEN [ok |-> TRUE, prefix |-> SubSeq(s, 1, p), g1 |-> SubSeq(s, p + 1, p + 3),
          g2 |-> SubSeq(s, b - 2, b), g3 |-> SubSeq(s, c - 2, c),
          suffix |-> IF AtEnd(s, c) THEN <<>> ELSE SubSeq(s, c + 1, c + 4)]
    ELSE NoMatch

AfterSpace(s, at) == at + (IF SpaceAt(s, at) THEN 1 ELSE 0)

OrgThird(s, p, b) == OrgGroups(s, p, b, AfterSpace(s, b) + 3)

OrgSecond(s, p) == OrgThird(s, p, AfterSpace(s, p + 3) + 3)

OrgMatch(s) == OrgSecond(s, IF LitAt(s, 0, <<"N", "O", " ">>) THEN 3 ELSE 0)

OrgJoinMutant(m, v) == IF m.ok THEN m.prefix \o m.g1 \o m.g2 \o m.g3 ELSE v

\* prefix + ''.join(match.groups()[1:4]) + suffix, or the value as it is
OrgJoin(m, v) == IF m.ok THEN m.prefix \o m.g1 \o m.g2 \o m.g3 \o m.suffix ELSE v

\* NOOrganisationNumberField.to_python
OrgToPython(v) == OrgJoin(OrgMatch(v), v)

org_weights == <<3, 2, 7, 6, 5, 4, 3, 2>>

OrgChecksum(remainder) == IF remainder = 0 THEN 0 ELSE 11 - remainder

\* the required test and the validators of the field (its regex, max_length
\* and min_length) on the to_python value u
OrgValidated(u, req) ==
    IF u = EmptyString
    THEN [error |-> IF req THEN "required" ELSE "", value |-> u]
    ELSE IF ~OrgMatch(u).ok \/ Len(u) > max_length \/ Len(u) < min_length
    THEN [error |-> "invalid", value |-> u]
    ELSE [error |-> "", value |-> u]

\* RegexField.clean: to_python, then the tests above
OrgSuperClean(v, req) == OrgValidated(OrgToPython(v), req)

\* lines 221-238 on number, the nine digits of the value
OrgCheck(u, number) ==
    IF OrgChecksum(WeightedSum(org_weights, Slice(number, 0, 8)) % 11)
           # DigitVal(number[Len(number)])
    THEN [outcome |-> "rejected", error |-> "invalid", value |-> u]
    ELSE [outcome |-> "ok", error |-> "", value |-> u]

OrgNumber(m) == m.g1 \o m.g2 \o m.g3

\* lines 217-238 on what RegexField.clean gave
OrgCleaned(sup, req) ==
    IF sup.error # "" THEN [outcome |-> "rejected", error |-> sup.error, value |-> sup.value]
    ELSE IF sup.value = EmptyString /\ ~req
    THEN [outcome |-> "empty", error |-> "", value |-> sup.value]
    ELSE OrgCheck(sup.value, OrgNumber(OrgMatch(sup.value)))

\* NOOrganisationNumberField.clean
OrgClean(v, req) == OrgCleaned(OrgSuperClean(v, req), req)

----------------------------------------------------------------------------
(* Inputs of the bank account and organisation number fields *)

\* every string of exactly n characters over an alphabet
StringsOfLen(alphabet, n) == [1..n -> alphabet]

\* every string of 1..n characters over an alphabet
ShortStrings(alphabet, n) == UNION { StringsOfLen(alphabet, k) : k \in 1..n }

BankBases == { <<"8", "6", "0", "1", "2", "2", "1", "2", "3", "5">>,
               <<"7", "6", "9", "4", "0", "5", "1", "2", "0", "5">> }

\* the ways an 11-digit string d is typed into the bank account field
BankTypings(d) ==
    { d,
      Slice(d, 0, 4) \o <<".">> \o Slice(d, 4, 6) \o <<".">> \o Slice(d, 6, 11),
      Slice(d, 0, 4) \o <<" ">> \o Slice(d, 4, 6) \o <<" ">> \o Slice(d, 6, 11),
      <<" ">> \o Slice(d, 0, 6) \o <<".", " ">> \o Slice(d, 6, 11) \o <<" ">>,
      Slice(d, 0, 10),
      d \o <<"0">>,
      Slice(d, 0, 4) \o <<"-">> \o Slice(d, 4, 11),
      Slice(d, 0, 10) \o <<"a">>,
      <<"sup2">> \o Slice(d, 1, 11) }

BankDigitStrings ==
    { Slice(b, 0, 10 - NFree) \o f \o <<c>> :
          b \in BankBases, f \in StringsOfLen(DigitChars, NFree), c \in DigitChars }

BankInputs ==
    UNION { BankTypings(d) : d \in BankDigitStrings }
    \cup ShortStrings({"1", ".", " ", "a", "sup2"}, MaxRawLen)
    \cup {EmptyString}

OrgBases == { <<"9", "8", "7", "6", "5", "4", "3", "2">> }

OrgPrefixes == { <<>>, <<"N", "O", " ">>, <<"n", "o", " ">> }
OrgSuffixes == { <<>>, <<" ", "M", "V", "A">>, <<" ", "m", "v", "a">> }
OrgSeparators == { <<<<>>, <<>>>>, <<<<" ">>, <<" ">>>>, <<<<" ">>, <<>>>>,
                   <<<<" ", " ">>, <<" ">>>> }

OrgDigitStrings ==
    { Slice(b, 0, 8 - NFree) \o f \o <<c>> :
          b \in OrgBases, f \in StringsOfLen(DigitChars, NFree), c \in DigitChars }

\* the pieces an organisation number is typed from
OrgParts ==
    { [prefix |-> p, g1 |-> Slice(d, 0, 3), sep1 |-> sp[1], g2 |-> Slice(d, 3, 6),
       sep2 |-> sp[2], g3 |-> Slice(d, 6, 9), suffix |-> x] :
          p \in OrgPrefixes, d \in OrgDigitStrings, sp \in OrgSeparators, x \in OrgSuffixes }

Typed(q) == q.prefix \o q.g1 \o q.sep1 \o q.g2 \o q.sep2 \o q.g3 \o q.suffix

OrgBadShapes ==
    { EmptyString,
      <<"N", "O", "9", "8", "7", "6", "5", "4", "3", "2", "5">>,
      <<"9", "8", "7", "6", "5", "4", "3", "2", "5", "M", "V", "A">>,
      <<"9", "8", "7", "6", "5", "4", "3", "2">>,
      <<"9", "8", "7", "6", "5", "4", "3", "2", "5", "0">>,
      <<" ", "9", "8", "7", "6", "5", "4", "3", "2", "5">>,
      <<"9", "8", "7", "6", "5", "4", "3", "2", "5", " ">>,
      <<"9", "8", " ", "7", "6", "5", "4", "3", "2", "5">>,
      <<"9", "8", "7", "6", "5", "4", "3", "2", "5", Newline>>,
      <<"9", "8", "7", "6", "5", "4", "3", "2", "5", " ", "M", "V", "A", Newline>>,
      <<"9", "8", "7", "6", "5", "4", "3", "2", "5", Newline, Newline>> }
    \cup ShortStrings({"9", " ", "N"}, MaxRawLen)

----------------------------------------------------------------------------
(* One call of clean on a bank account or an organisation number field *)

InitAcct ==
    /\ lazyMap = TRUE
    /\ required \in BOOLEAN
    /\ pc = "idle"
    /\ field = "none"
    /\ raw = EmptyString
    /\ value = EmptyString
    /\ outcome = "none"
    /\ error = ""
    /\ failKind = ""
    /\ parts = NoParts
    /\ birthday = Unset
    /\ gender = "unset"
    /\ NoThreads

Untouched == <<lazyMap, required, failKind, birthday, gender, tpc, tin, tres, tseen>>

CleanBank ==
    /\ pc = "idle"
    /\ \E v \in BankInputs :
       \E r \in {BankClean(v, required)} :
           /\ raw' = v
           /\ value' = r.value
           /\ outcome' = r.outcome
           /\ error' = r.error
    /\ field' = "bank"
    /\ pc' = "done"
    /\ UNCHANGED parts
    /\ UNCHANGED Untouched

CleanOrgTyped ==
    /\ pc = "idle"
    /\ \E q \in OrgParts :
       \E r \in {OrgClean(Typed(q), required)} :
           /\ raw' = Typed(q)
           /\ parts' = q
           /\ value' = r.value
           /\ outcome' = r.outcome
           /\ error' = r.error
    /\ field' = "org"
    /\ pc' = "done"
    /\ UNCHANGED Untouched

CleanOrgOther ==
    /\ pc = "idle"
    /\ \E v \in OrgBadShapes :
       \E r \in {OrgClean(v, required)} :
           /\ raw' = v
           /\ value' = r.value
           /\ outcome' = r.outcome
           /\ error' = r.error
    /\ field' = "org"
    /\ pc' = "done"
    /\ UNCHANGED parts
    /\ UNCHANGED Untouched

NextAcct == CleanBank \/ CleanOrgTyped \/ CleanOrgOther

SpecAcct == InitAcct /\ [][NextAcct]_vars

----------------------------------------------------------------------------
(* Claims about the bank account and organisation number fields *)

\* the raw input with every period and space removed
Stripped(x) == SelectSeq(x, LAMBDA c : c \notin {".", " "})

D(x, i) == DigitVal(x[i])

\* the weighted sum of the ten account digits modulo 11
BankRemainder(x) ==
    (5 * D(x, 1) + 4 * D(x, 2) + 3 * D(x, 3) + 2 * D(x, 4) + 7 * D(x, 5)
       + 6 * D(x, 6) + 5 * D(x, 7) + 4 * D(x, 8) + 3 * D(x, 9) + 2 * D(x, 10)) % 11

\* the outcome the rules give for a stripped input, first applicable rule
\* wins: the key of the failure, or "" for acceptance
RuledOutcome(x) ==
    IF \E i \in 1..Len(x) : x[i] \notin DigitChars THEN "invalid"
    ELSE IF Len(x) # 11 THEN "invalid_length"
    ELSE IF (IF BankRemainder(x) = 0 THEN 0 ELSE 11 - BankRemainder(x)) # D(x, 11)
    THEN "invalid_checksum"
    ELSE ""

OutcomeIsRuled(x) ==
    /\ RuledOutcome(x) = "" => (outcome = "ok" /\ value = x)
    /\ RuledOutcome(x) # "" => (outcome = "rejected" /\ error = RuledOutcome(x))
    /\ (Len(x) = 11 /\ IsAllDigits(x) /\ BankRemainder(x) = 1) => outcome = "rejected"

\* C6: every non-empty raw bank account input gets the outcome the rules
\* give for it with periods and spaces removed: 'invalid' for a non-digit,
\* else 'invalid_length', else 'invalid_checksum', else accepted with the
\* stripped input as value; a remainder of 1 is always rejected.
C6_EveryNonEmptyRawIsRuled ==
    (field = "bank" /\ raw # EmptyString) => OutcomeIsRuled(Stripped(raw))

\* C7: an accepted bank account input has a canonical value of 11 bare
\* digits that normalises to itself and is accepted again, whose display
\* form is XXXX.YY.XXXXX and strips back to the canonical value.
C7_BankRoundTrip ==
    (field = "bank" /\ outcome = "ok") =>
        /\ value = BankToPython(raw)
        /\ Len(value) = 11 /\ IsAllDigits(value)
        /\ BankToPython(value) = value
        /\ BankClean(value, required) = [outcome |-> "ok", error |-> "", value |-> value]
        /\ prepare_value(value) =
               SubSeq(value, 1, 4) \o <<".">> \o SubSeq(value, 5, 6) \o <<".">> \o SubSeq(value, 7, 11)
        /\ BankToPython(prepare_value(value)) = value

C7_Witness ==
    /\ field = "bank" /\ outcome = "ok"
    /\ raw = <<"8", "6", "0", "1", ".", "2", "2", ".", "1", "2", "3", "5", "8">>
    /\ value = <<"8", "6", "0", "1", "2", "2", "1", "2", "3", "5", "8">>
    /\ prepare_value(value) = raw

\* the pieces make an input of the tolerant grammar
InGrammar(q) ==
    /\ UpperSeq(q.prefix) \in { <<>>, <<"N", "O", " ">> }
    /\ q.sep1 \in { <<>>, <<" ">> }
    /\ q.sep2 \in { <<>>, <<" ">> }
    /\ UpperSeq(q.suffix) \in { <<>>, <<" ", "M", "V", "A">> }

\* C8: for an organisation number input of the tolerant grammar the
\* canonical value is the prefix as typed, the nine digits and the suffix as
\* typed; it matches the grammar, normalises to itself, and is accepted if
\* and only if the input is, each call returning the canonical value.
\* c is the canonical value of the input typed from the pieces q
RoundTrips(q, c) ==
    /\ c = q.prefix \o q.g1 \o q.g2 \o q.g3 \o q.suffix
    /\ OrgMatch(c).ok
    /\ OrgToPython(c) = c
    /\ outcome \in {"ok", "rejected"}
    /\ value = c
    /\ OrgClean(c, required) = [outcome |-> outcome, error |-> error, value |-> c]

C8_OrgRoundTrip ==
    (field = "org" /\ parts # NoParts /\ InGrammar(parts)) =>
        (OrgMatch(raw).ok /\ RoundTrips(parts, OrgToPython(raw)))

C8_Witness ==
    /\ field = "org" /\ outcome = "ok"
    /\ raw = <<"N", "O", " ", "9", "8", "7", " ", "6", "5", "4", " ", "3", "2", "5",
               " ", "M", "V", "A">>
    /\ value = <<"N", "O", " ", "9", "8", "7", "6", "5", "4", "3", "2", "5",
                 " ", "M", "V", "A">>

\* C9: changing any one digit of an accepted bank account number gives an
\* input rejected for its checksum, and changing any one digit of an accepted
\* organisation number gives an input that is rejected.
C9_SingleDigitChangeRejected ==
    /\ (field = "bank" /\ outcome = "ok") =>
           \A i \in 1..Len(value) : \A c \in DigitChars \ {value[i]} :
               BankClean([value EXCEPT ![i] = c], required) =
                   [outcome |-> "rejected", error |-> "invalid_checksum",
                    value |-> [value EXCEPT ![i] = c]]
    /\ (field = "org" /\ outcome = "ok") =>
           \A i \in 1..Len(value) : \A c \in DigitChars \ {value[i]} :
               value[i] \in DigitChars =>
                   OrgClean([value EXCEPT ![i] = c], required).outcome = "rejected"

C9_Witness ==
    /\ field = "bank" /\ outcome = "ok"
    /\ value = <<"8", "6", "0", "1", "2", "2", "1", "2", "3", "5", "8">>
    /\ BankClean([value EXCEPT ![10] = "4"], required).error = "invalid_checksum"

====
